---- MODULE Spec2Model ----
(***************************************************************************)
(* Model of the AoN creature importer.  The repository holds two revisions *)
(* of the importer:                                                        *)
(*   "co" : src/dataloader-aon_co.js  (fetchAoN, parseHtml/parseText,      *)
(*          extractAttacksFromText, normalize)                             *)
(*   "p0" : src/unnamed/part_000      (assertAoN, fetchWithFallback,       *)
(*          extractTraits, extractAttacks)                                 *)
(* Strings are sequences of one-character strings; the character U+2212    *)
(* (typographic minus) is written "U2212".  JavaScript values that may be  *)
(* null, NaN or infinite are tagged records.                               *)
(***************************************************************************)
EXTENDS Integers, Sequences, FiniteSets, TLC

VARIABLES ver, pc, url, inflight, attempts, body, parsed, outcome,
          text, cands, attacks, tsrc, traits

vars == <<ver, pc, url, inflight, attempts, body, parsed, outcome,
          text, cands, attacks, tsrc, traits>>

Versions == {"co", "p0"}

(* ------------------------- JavaScript values --------------------------- *)

JNull == [k |-> "null"]
JNaN == [k |-> "nan"]
JInf(sg) == [k |-> "inf", sg |-> sg]
JNum(n) == [k |-> "num", n |-> n]
JStr(s) == [k |-> "str", s |-> s]

\* a digit run too long for a double: parseInt yields Infinity
Huge == <<"HUGE">>

Truthy(v) ==
  CASE v.k = "null" -> FALSE
    [] v.k = "nan" -> FALSE
    [] v.k = "inf" -> TRUE
    [] v.k = "num" -> v.n # 0
    [] v.k = "str" -> v.s # <<>>
    [] OTHER -> TRUE

\* global isFinite(x): coerces with Number(x) first; Number(null) = 0
isFinite(v) ==
  CASE v.k = "null" -> TRUE
    [] v.k = "num" -> TRUE
    [] OTHER -> FALSE

\* Number.isFinite(x): no coercion
NumberIsFinite(v) == v.k = "num"

\* JavaScript a > b on numbers: false as soon as one side is NaN
JGt(a, b) ==
  CASE a.k = "nan" \/ b.k = "nan" -> FALSE
    [] a.k = "inf" /\ b.k = "inf" -> a.sg > b.sg
    [] a.k = "inf" -> a.sg > 0
    [] b.k = "inf" -> b.sg < 0
    [] OTHER -> a.n > b.n

(* ----------------------------- Strings --------------------------------- *)

IsSpace(c) == c \in {" ", "NL"}
Digits == {"0", "1", "2", "3", "4", "5", "6", "7", "8", "9"}
DigitVal(c) ==
  CASE c = "0" -> 0 [] c = "1" -> 1 [] c = "2" -> 2 [] c = "3" -> 3
    [] c = "4" -> 4 [] c = "5" -> 5 [] c = "6" -> 6 [] c = "7" -> 7
    [] c = "8" -> 8 [] c = "9" -> 9

RECURSIVE TrimLeft(_)
TrimLeft(s) == IF s # <<>> /\ IsSpace(Head(s)) THEN TrimLeft(Tail(s)) ELSE s

RECURSIVE TrimRight(_)
TrimRight(s) ==
  IF s # <<>> /\ IsSpace(s[Len(s)]) THEN TrimRight(SubSeq(s, 1, Len(s) - 1)) ELSE s

\* replace(/\s+/g, " "): every run of whitespace becomes one blank
RECURSIVE CollapseSpaces(_)
CollapseSpaces(s) ==
  IF s = <<>> THEN <<>>
  ELSE IF IsSpace(Head(s))
       THEN <<" ">> \o CollapseSpaces(TrimLeft(s))
       ELSE <<Head(s)>> \o CollapseSpaces(Tail(s))

clean(s) == TrimRight(TrimLeft(CollapseSpaces(s)))

LowerChar(c) == CASE c = "A" -> "a" [] c = "B" -> "b" [] c = "E" -> "e" [] OTHER -> c
toLowerCase(s) == [i \in 1..Len(s) |-> LowerChar(s[i])]

\* String.prototype.replace with a string pattern: first occurrence only
RECURSIVE ReplaceFirst(_, _, _)
ReplaceFirst(s, c, r) ==
  IF s = <<>> THEN <<>>
  ELSE IF Head(s) = c THEN r \o Tail(s)
       ELSE <<Head(s)>> \o ReplaceFirst(Tail(s), c, r)

normalizePlus(s) == ReplaceFirst(s, "U2212", <<"-">>)

RECURSIVE DigitsValue(_, _)
DigitsValue(s, acc) ==
  IF s = <<>> \/ Head(s) \notin Digits THEN acc
  ELSE DigitsValue(Tail(s), 10 * acc + DigitVal(Head(s)))

\* parseInt(s, 10): leading whitespace, optional sign, then the digit run
parseIntAbs(s) ==
  LET t == TrimLeft(s)
      u == IF t # <<>> /\ Head(t) \in {"+", "-"} THEN Tail(t) ELSE t
  IN IF u = Huge THEN JInf(1)
     ELSE IF u = <<>> \/ Head(u) \notin Digits THEN JNaN
     ELSE JNum(DigitsValue(u, 0))
parseInt(s) ==
  LET t == TrimLeft(s)
      neg == t # <<>> /\ Head(t) = "-"
      u == IF t # <<>> /\ Head(t) \in {"+", "-"} THEN Tail(t) ELSE t
  IN IF u = Huge THEN JInf(IF neg THEN -1 ELSE 1)
     ELSE IF u = <<>> \/ Head(u) \notin Digits THEN JNaN
     ELSE JNum(IF neg THEN 0 - DigitsValue(u, 0) ELSE DigitsValue(u, 0))

(* --------------------------- Attack merge ------------------------------ *)

\* JavaScript Map as a sequence of key/value pairs in insertion order
MapHas(m, k) == \E i \in 1..Len(m) : m[i].key = k
MapGet(m, k) == m[CHOOSE i \in 1..Len(m) : m[i].key = k].val
MapValues(m) == [i \in 1..Len(m) |-> m[i].val]

\* a set() that re-inserts an existing key at the end
MapSetMove(m, k, v) ==
  SelectSeq(m, LAMBDA e : e.key # k) \o <<[key |-> k, val |-> v]>>
\* Map.prototype.set: an existing key keeps its insertion position
MapSet(m, k, v) ==
  IF MapHas(m, k)
  THEN [i \in 1..Len(m) |-> IF m[i].key = k THEN [key |-> k, val |-> v] ELSE m[i]]
  ELSE Append(m, [key |-> k, val |-> v])

attackKeyExact(a) == a.name
\* (a.name || "").toLowerCase()  /  a.name.toLowerCase()
attackKey(a) == toLowerCase(a.name)

\* parseInt((a.attack || "0").replace("+", ""), 10)
attackNum(a) ==
  parseInt(ReplaceFirst(IF a.attack = <<>> THEN <<"0">> ELSE a.attack, "+", <<>>))

RECURSIVE coalesceLoop_co(_, _)
coalesceLoop_co(list, by) ==
  IF list = <<>> THEN by
  ELSE LET a == Head(list)
           k == attackKey(a)
       IN IF ~MapHas(by, k) THEN coalesceLoop_co(Tail(list), MapSet(by, k, a))
          ELSE LET prev == MapGet(by, k)
               IN IF JGt(attackNum(a), attackNum(prev))
                  THEN coalesceLoop_co(Tail(list), MapSet(by, k, a))
                  ELSE coalesceLoop_co(Tail(list), by)

RECURSIVE coalesceLoop_p0(_, _)
coalesceLoop_p0(list, map) ==
  IF list = <<>> THEN map
  ELSE LET a == Head(list)
           key == attackKey(a)
       IN IF ~MapHas(map, key) THEN coalesceLoop_p0(Tail(list), MapSet(map, key, a))
          ELSE LET prev == MapGet(map, key)
               IN coalesceLoop_p0(Tail(list),
                    MapSet(map, key,
                           IF JGt(attackNum(a), attackNum(prev)) THEN a ELSE prev))

coalesceAttacks_co(list) == MapValues(coalesceLoop_co(list, <<>>))
coalesceAttacks_p0(list) == MapValues(coalesceLoop_p0(list, <<>>))

(* -------------------------- Attack extractor --------------------------- *)

\* A body of text is a sequence of tokens: a paragraph break, or a line
\*   (Melee|Ranged) <name> <bonus>            paren = FALSE
\*   (Melee|Ranged) <name> <bonus> (<dmg>)    paren = TRUE
Blank == [t |-> "blank"]
IsLine(x) == x.t = "attack"

\* cleanSpaces: runs of blanks collapse, the block is trimmed
cleanSpaces(s) == TrimRight(TrimLeft(CollapseSpaces(s)))

RECURSIVE TakeDigits(_, _)
TakeDigits(s, n) ==
  IF s = <<>> \/ n = 0 \/ Head(s) \notin Digits THEN <<>>
  ELSE <<Head(s)>> \o TakeDigits(Tail(s), n - 1)

BonusDigits_co == 2
\* group 3 of the patterns: [+U2212-]\d{1,2} in "co", [+U2212-]\d+ in "p0"
matchBonus(v, raw) ==
  <<Head(raw)>> \o TakeDigits(Tail(raw), IF v = "co" THEN BonusDigits_co ELSE Len(raw))

detailedEntry(v, ln) ==
  [name |-> clean(ln.name), attack |-> normalizePlus(matchBonus(v, ln.bonus)),
   damage |-> JStr(clean(ln.dmg))]
simpleEntry(v, ln) ==
  [name |-> clean(ln.name), attack |-> normalizePlus(matchBonus(v, ln.bonus)),
   damage |-> JNull]

\* the detailed pattern needs the parenthesised damage on the same line
RECURSIVE scanDetailed(_, _)
scanDetailed(v, t) ==
  IF t = <<>> THEN <<>>
  ELSE IF IsLine(Head(t)) /\ Head(t).paren
       THEN <<detailedEntry(v, Head(t))>> \o scanDetailed(v, Tail(t))
       ELSE scanDetailed(v, Tail(t))

\* the relaxed pattern matches every attack line, with or without damage
RECURSIVE scanSimple(_, _)
scanSimple(v, t) ==
  IF t = <<>> THEN <<>>
  ELSE IF IsLine(Head(t))
       THEN <<simpleEntry(v, Head(t))>> \o scanSimple(v, Tail(t))
       ELSE scanSimple(v, Tail(t))

candidatesBoth_co(t) == scanDetailed("co", t) \o scanSimple("co", t)
candidates_co(t) ==
  LET found == scanDetailed("co", t)
  IN IF found = <<>> THEN scanSimple("co", t) ELSE found

extractAttacksFromText(t) == coalesceAttacks_co(candidates_co(t))

\* raw.split(/\n{2,}/).map(cleanSpaces).filter(Boolean)
RECURSIVE splitBlocks(_, _)
splitBlocks(t, cur) ==
  IF t = <<>> THEN (IF cur = <<>> THEN <<>> ELSE <<cur>>)
  ELSE IF IsLine(Head(t))
       THEN splitBlocks(Tail(t),
              Append(cur, [Head(t) EXCEPT !.name = cleanSpaces(@)]))
       ELSE (IF cur = <<>> THEN <<>> ELSE <<cur>>) \o splitBlocks(Tail(t), <<>>)

BlockLimit == 40
textBlocks(t) ==
  LET bs == splitBlocks(t, <<>>)
  IN SubSeq(bs, 1, IF Len(bs) < BlockLimit THEN Len(bs) ELSE BlockLimit)

RECURSIVE scanBlocksDetailed(_)
scanBlocksDetailed(blocks) ==
  IF blocks = <<>> THEN <<>>
  ELSE scanDetailed("p0", Head(blocks)) \o scanBlocksDetailed(Tail(blocks))

RECURSIVE scanBlocksSimple(_)
scanBlocksSimple(blocks) ==
  IF blocks = <<>> THEN <<>>
  ELSE scanSimple("p0", Head(blocks)) \o scanBlocksSimple(Tail(blocks))

candidates_p0(t) ==
  LET blocks == textBlocks(t)
      found == scanBlocksDetailed(blocks)
  IN IF found = <<>> THEN scanBlocksSimple(blocks) ELSE found

extractAttacks(t) == coalesceAttacks_p0(candidates_p0(t))

(* --------------------------- Trait extractor --------------------------- *)

\* s.split(/[,;U2022]+/): a run of separators is one cut
IsSep(c) == c \in {",", ";", "U2022"}
RECURSIVE splitOn(_, _)
splitOn(s, cur) ==
  IF s = <<>> THEN <<cur>>
  ELSE IF IsSep(Head(s))
       THEN IF Len(s) > 1 /\ IsSep(s[2])
            THEN splitOn(Tail(s), cur)
            ELSE <<cur>> \o splitOn(Tail(s), <<>>)
       ELSE splitOn(Tail(s), Append(cur, Head(s)))

\* .filter(Boolean) on strings: the empty string is dropped
filterBoolean(a) == SelectSeq(a, LAMBDA x : x # <<>>)

splitTraits(s) == filterBoolean([i \in 1..Len(splitOn(s, <<>>)) |-> clean(splitOn(s, <<>>)[i])])

\* Array.from(new Set(a)): first occurrences, in order
RECURSIVE dedup(_)
dedup(a) ==
  IF a = <<>> THEN <<>>
  ELSE LET r == dedup(SubSeq(a, 1, Len(a) - 1))
           x == a[Len(a)]
       IN IF \E i \in 1..Len(r) : r[i] = x THEN r ELSE Append(r, x)

\* What the page offers the trait strategies:
\*   markers : textContent of the elements matching the trait selectors
\*   line    : the text after "Traits:" (JNull when there is no such line);
\*             atEnd says that text runs to the end of the parent's text
\*   para    : the text inside the first parenthesis of the first <p>
cleanAll(a) == [i \in 1..Len(a) |-> clean(a[i])]

pickTraitsHtml(src) ==
  LET links == filterBoolean(cleanAll(src.markers))
  IN IF links # <<>> THEN dedup(links)
     ELSE IF src.line.k = "str" /\ src.line.atEnd THEN splitTraits(src.line.s)
     ELSE <<>>

\* the text route of parseText: only the "Traits:" line is visible
parseTextTraits(src) ==
  IF src.line.k = "str" THEN splitTraits(src.line.s) ELSE <<>>

extractTraits(src) ==
  LET tagLinks == filterBoolean(cleanAll(src.markers))
  IN IF tagLinks # <<>> THEN dedup(tagLinks)
     ELSE IF src.line.k = "str" THEN splitTraits(src.line.s)
     ELSE IF src.para.k = "str" THEN splitTraits(src.para.s)
     ELSE <<>>

(* --------------------------- Field extractors -------------------------- *)

\* What a retrieved page offers the field extractors:
\*   h1       : textContent of the first primary heading (JNull: none);
\*              the character "CRE" stands for a trailing "(Creature N)"
\*   head     : textContent of the first heading-like element in scope
\*   creature : the "Creature N" marker; pre is the text before it in the
\*              same line/block, lvl the signed digit run
\*   ac, hp   : the digit run after the label (JNull: no label or no digits)
\*   speed    : the text after "Speed" up to the sentence end
\*   tsrc     : the trait sources, text : the attack lines
JArr(a) == [k |-> "arr", a |-> a]
ArrayIsArray(v) == v.k = "arr"

\* t.match(/^(.+?)\s*\(Creature\s+(-?\d+)\)$/i) ? m[1] : t
stripCreatureSuffix(t) ==
  IF Len(t) > 1 /\ t[Len(t)] = "CRE"
  THEN TrimRight(SubSeq(t, 1, Len(t) - 1))
  ELSE t

pickNameHtml(page) ==
  IF page.h1.k = "str" /\ page.h1.s # <<>>
  THEN JStr(stripCreatureSuffix(clean(page.h1.s)))
  ELSE IF page.head.k = "str" THEN JStr(clean(page.head.s)) ELSE JNull

pickNumber(page) ==
  IF page.creature.k = "str" THEN parseInt(page.creature.lvl) ELSE JNull

pickLabeledNumber(field) == IF field.k = "str" THEN parseInt(field.s) ELSE JNull
pickLabeledLine(field) == IF field.k = "str" THEN JStr(clean(field.s)) ELSE JNull

parseHtml(page) ==
  [name |-> pickNameHtml(page),
   level |-> pickNumber(page),
   traits |-> JArr(pickTraitsHtml(page.tsrc)),
   ac |-> pickLabeledNumber(page.ac),
   hp |-> pickLabeledNumber(page.hp),
   speed |-> pickLabeledLine(page.speed),
   attacks |-> JArr(extractAttacksFromText(page.text))]

\* both header patterns need some text before the marker
creatureLineMatches(page) == page.creature.k = "str" /\ page.creature.pre # <<>>

parseText(page) ==
  [name |-> IF creatureLineMatches(page) THEN JStr(clean(page.creature.pre)) ELSE JNull,
   level |-> IF creatureLineMatches(page) THEN parseInt(page.creature.lvl) ELSE JNull,
   traits |-> JArr(parseTextTraits(page.tsrc)),
   ac |-> pickLabeledNumber(page.ac),
   hp |-> pickLabeledNumber(page.hp),
   speed |-> pickLabeledLine(page.speed),
   attacks |-> JArr(extractAttacksFromText(page.text))]

Unknown == <<"Unknown">>

normalizeRaw(obj) == obj
normalize(obj) ==
  [name |-> IF Truthy(obj.name) THEN obj.name ELSE JStr(Unknown),
   level |-> IF NumberIsFinite(obj.level) THEN obj.level ELSE JNull,
   traits |-> IF ArrayIsArray(obj.traits) THEN obj.traits ELSE JArr(<<>>),
   ac |-> IF NumberIsFinite(obj.ac) THEN obj.ac ELSE JNull,
   hp |-> IF NumberIsFinite(obj.hp) THEN obj.hp ELSE JNull,
   speed |-> IF Truthy(obj.speed) THEN obj.speed ELSE JNull,
   attacks |-> IF ArrayIsArray(obj.attacks) THEN obj.attacks ELSE JArr(<<>>)]

extractName(page) ==
  IF page.h1.k = "str" /\ clean(page.h1.s) # <<>> THEN JStr(clean(page.h1.s))
  ELSE IF page.head.k = "str" /\ clean(page.head.s) # <<>> THEN JStr(clean(page.head.s))
  ELSE IF creatureLineMatches(page) THEN JStr(clean(page.creature.pre))
  ELSE JNull

extractLevel(page) ==
  IF page.creature.k = "str" THEN parseInt(page.creature.lvl) ELSE JNull

extractNumberAfter(field) == IF field.k = "str" THEN parseInt(field.s) ELSE JNull
extractSpeed(field) == IF field.k = "str" THEN JStr(clean(field.s)) ELSE JNull

\* the fields as extracted by part_000's importFromLink, before defaulting
extracted_p0(page) ==
  [name |-> extractName(page),
   level |-> extractLevel(page),
   traits |-> JArr(extractTraits(page.tsrc)),
   ac |-> extractNumberAfter(page.ac),
   hp |-> extractNumberAfter(page.hp),
   speed |-> extractSpeed(page.speed),
   attacks |-> JArr(extractAttacks(page.text))]

Ok(rec) == [k |-> "ok", rec |-> rec]
Fail(err) == [k |-> "fail", err |-> err]
Pending == [k |-> "pending"]

\* dataloader-aon_co.js importFromLink, after fetchAoN returned {kind, body}
importFromLink_co(kind, page) ==
  LET out == IF kind = "html" THEN parseHtml(page) ELSE parseText(page)
  IN [parsed |-> out,
      outcome |-> IF ~Truthy(out.name) /\ ~isFinite(out.level) /\ ~isFinite(out.hp)
                  THEN Fail("Parse failed")
                  ELSE Ok(normalize(out))]

\* part_000 importFromLink, after fetchWithFallback returned the html
importFromLink_p0(page) ==
  LET x == extracted_p0(page)
  IN [parsed |-> x,
      outcome |-> Ok([name |-> IF Truthy(x.name) THEN x.name ELSE JStr(Unknown),
                      level |-> IF NumberIsFinite(x.level) THEN x.level ELSE JNull,
                      traits |-> x.traits,
                      ac |-> IF NumberIsFinite(x.ac) THEN x.ac ELSE JNull,
                      hp |-> IF NumberIsFinite(x.hp) THEN x.hp ELSE JNull,
                      speed |-> IF Truthy(x.speed) THEN x.speed ELSE JNull,
                      attacks |-> x.attacks])]

(* ------------------------------ Inputs --------------------------------- *)

MaxLines == 3
MaxTraitChars == 3
MaxMarkers == 2

SeqsUpTo(S, n) == UNION {[1..m -> S] : m \in 0..n}

AttackNames == {<<"a">>, <<"A">>, <<"b", " ", " ", "B">>}
AttackBonuses == {<<"+", "5">>, <<"+", "1", "2", "3">>, <<"U2212", "5">>}
AttackLines ==
  {[t |-> "attack", name |-> n, bonus |-> b, paren |-> TRUE, dmg |-> <<"d">>] :
      n \in AttackNames, b \in AttackBonuses}
  \cup
  {[t |-> "attack", name |-> n, bonus |-> b, paren |-> FALSE, dmg |-> <<>>] :
      n \in AttackNames, b \in AttackBonuses}
Tokens == AttackLines \cup {Blank}
Texts == SeqsUpTo(Tokens, MaxLines)

TraitChars == {"E", ",", " "}
TraitTexts == SeqsUpTo(TraitChars, MaxTraitChars) \ {<<>>}
TraitLines ==
  {JNull} \cup {[k |-> "str", s |-> x, atEnd |-> e] : x \in TraitTexts, e \in BOOLEAN}
TraitParas == {JNull} \cup {JStr(x) : x \in TraitTexts}
TraitMarkers == SeqsUpTo({<<"E">>, <<" ", "E">>, <<" ">>}, MaxMarkers)
TraitSources ==
  [markers : TraitMarkers, line : TraitLines, para : TraitParas]

NoTraits == [markers |-> <<>>, line |-> JNull, para |-> JNull]

\* the pages served during an import call
PageTraitSources ==
  {NoTraits,
   [markers |-> <<>>, line |-> [k |-> "str", s |-> <<"E", ",", "E">>, atEnd |-> TRUE],
    para |-> JNull]}
PageTexts ==
  {<<>>,
   <<[t |-> "attack", name |-> <<"a">>, bonus |-> <<"+", "5">>, paren |-> TRUE,
      dmg |-> <<"d">>]>>}
Creatures ==
  {JNull,
   [k |-> "str", pre |-> <<>>, lvl |-> <<"4">>],
   [k |-> "str", pre |-> <<"B">>, lvl |-> <<"-", "1">>],
   [k |-> "str", pre |-> <<" ">>, lvl |-> Huge]}
Pages ==
  [h1 : {JNull, JStr(<<" ">>), JStr(<<"B", " ", "CRE">>)},
   head : {JNull, JStr(<<"H">>)},
   creature : Creatures,
   ac : {JNull, JStr(<<"2", "3">>)},
   hp : {JNull, JStr(<<"1", "5", "0">>), JStr(Huge)},
   speed : {JNull, JStr(<<" ">>), JStr(<<"2", "5">>)},
   tsrc : PageTraitSources,
   text : PageTexts]

Urls == {"unparseable", "aonprd", "other"}
FailureModes == {"status", "network", "body"}

(* --------------------------- The import call --------------------------- *)

\* new URL(rawUrl) returns normally
urlParsesAny(u) == TRUE
urlParses(u) == u # "unparseable"

Issue(a) == [a |-> a, e |-> "issue"]
Done(a, e) == [a |-> a, e |-> e]

\* what rejects importFromLink when the fallback attempt fails
fallbackSwallowed(v, mode) == Ok(normalize(parseText([h1 |-> JNull, head |-> JNull,
    creature |-> JNull, ac |-> JNull, hp |-> JNull, speed |-> JNull,
    tsrc |-> NoTraits, text |-> <<>>])))
fallbackFailure(v, mode) ==
  IF mode = "status"
  THEN Fail(IF v = "co" THEN "Fetch failed via mirror" ELSE "Fetch failed.")
  ELSE Fail("NetworkError")

IdleParts ==
  /\ text = <<>> /\ cands = <<>> /\ attacks = <<>>
  /\ tsrc = NoTraits /\ traits = <<>>

Init ==
  /\ ver \in Versions
  /\ url \in Urls
  /\ pc = "idle"
  /\ inflight = {}
  /\ attempts = <<>>
  /\ body = JNull
  /\ parsed = JNull
  /\ outcome = Pending
  /\ IdleParts

\* a call that starts both routes at once
CallConcurrent ==
  /\ pc = "idle"
  /\ IF urlParses(url)
     THEN /\ pc' = "direct"
          /\ inflight' = {"direct", "fallback"}
          /\ attempts' = <<Issue("direct"), Issue("fallback")>>
          /\ outcome' = outcome
     ELSE /\ pc' = "done"
          /\ outcome' = Fail(IF ver = "co" THEN "Invalid URL" ELSE "Invalid URL.")
          /\ UNCHANGED <<inflight, attempts>>
  /\ UNCHANGED <<ver, url, body, parsed, text, cands, attacks, tsrc, traits>>

\* importFromLink(url) up to its first suspension: the URL is parsed and,
\* when it parses, the direct fetch is issued
Call ==
  /\ pc = "idle"
  /\ IF urlParses(url)
     THEN /\ pc' = "direct"
          /\ inflight' = {"direct"}
          /\ attempts' = Append(attempts, Issue("direct"))
          /\ outcome' = outcome
     ELSE /\ pc' = "done"
          /\ outcome' = Fail(IF ver = "co" THEN "Invalid URL" ELSE "Invalid URL.")
          /\ UNCHANGED <<inflight, attempts>>
  /\ UNCHANGED <<ver, url, body, parsed, text, cands, attacks, tsrc, traits>>

\* the direct response is ok and its body is read: extraction runs at once
DirectOk ==
  /\ pc = "direct"
  /\ "direct" \in inflight
  /\ \E page \in Pages, ct \in {"html", "text"} :
       LET kind == IF ver = "co" THEN ct ELSE "html"
           r == IF ver = "co" THEN importFromLink_co(kind, page)
                ELSE importFromLink_p0(page)
       IN /\ body' = [kind |-> kind, page |-> page, route |-> "direct"]
          /\ parsed' = r.parsed
          /\ outcome' = r.outcome
  /\ inflight' = inflight \ {"direct"}
  /\ attempts' = Append(attempts, Done("direct", "ok"))
  /\ pc' = "done"
  /\ UNCHANGED <<ver, url, text, cands, attacks, tsrc, traits>>

\* the direct attempt ends without a usable body (rejected fetch, non-ok
\* status, or a body read that rejects): the fallback fetch is issued
DirectFail ==
  /\ pc = "direct"
  /\ "direct" \in inflight
  /\ \E mode \in FailureModes :
       attempts' = attempts \o <<Done("direct", mode), Issue("fallback")>>
  /\ inflight' = (inflight \ {"direct"}) \cup {"fallback"}
  /\ pc' = "fallback"
  /\ UNCHANGED <<ver, url, body, parsed, outcome, text, cands, attacks, tsrc, traits>>

\* the fallback response is ok and its body is read
FallbackOk ==
  /\ pc = "fallback"
  /\ "fallback" \in inflight
  /\ \E page \in Pages :
       LET kind == IF ver = "co" THEN "text" ELSE "html"
           r == IF ver = "co" THEN importFromLink_co(kind, page)
                ELSE importFromLink_p0(page)
       IN /\ body' = [kind |-> kind, page |-> page, route |-> "fallback"]
          /\ parsed' = r.parsed
          /\ outcome' = r.outcome
  /\ inflight' = inflight \ {"fallback"}
  /\ attempts' = Append(attempts, Done("fallback", "ok"))
  /\ pc' = "done"
  /\ UNCHANGED <<ver, url, text, cands, attacks, tsrc, traits>>

\* the fallback attempt fails: the call rejects, nothing is extracted
FallbackFail ==
  /\ pc = "fallback"
  /\ "fallback" \in inflight
  /\ \E mode \in FailureModes :
       /\ attempts' = Append(attempts, Done("fallback", mode))
       /\ outcome' = fallbackFailure(ver, mode)
  /\ inflight' = inflight \ {"fallback"}
  /\ pc' = "done"
  /\ UNCHANGED <<ver, url, body, parsed, text, cands, attacks, tsrc, traits>>

Next == Call \/ DirectOk \/ DirectFail \/ FallbackOk \/ FallbackFail

Spec == Init /\ [][Next]_vars

(* ---------------------- The attack extractor alone --------------------- *)

IdleCall ==
  /\ url = "aonprd" /\ inflight = {} /\ attempts = <<>>
  /\ body = JNull /\ parsed = JNull /\ outcome = Pending

InitAttacks ==
  /\ ver \in Versions
  /\ text \in Texts
  /\ pc = "ready"
  /\ cands = <<>>
  /\ attacks = <<>>
  /\ tsrc = NoTraits /\ traits = <<>>
  /\ IdleCall

\* extractAttacksFromText(t) of dataloader-aon_co.js
ExtractAttacksFromText ==
  /\ pc = "ready" /\ ver = "co"
  /\ cands' = candidates_co(text)
  /\ attacks' = extractAttacksFromText(text)
  /\ pc' = "done"
  /\ UNCHANGED <<ver, url, inflight, attempts, body, parsed, outcome, text, tsrc, traits>>

\* extractAttacks(scope) of part_000
ExtractAttacks ==
  /\ pc = "ready" /\ ver = "p0"
  /\ cands' = candidates_p0(text)
  /\ attacks' = extractAttacks(text)
  /\ pc' = "done"
  /\ UNCHANGED <<ver, url, inflight, attempts, body, parsed, outcome, text, tsrc, traits>>

NextAttacks == ExtractAttacksFromText \/ ExtractAttacks

SpecAttacks == InitAttacks /\ [][NextAttacks]_vars

(* ---------------------- The trait extractor alone ---------------------- *)

InitTraits ==
  /\ ver \in Versions
  /\ tsrc \in TraitSources
  /\ pc = "ready"
  /\ traits = <<>>
  /\ text = <<>> /\ cands = <<>> /\ attacks = <<>>
  /\ IdleCall

\* the traits of parseHtml (dataloader-aon_co.js)
PickTraitsHtml ==
  /\ pc = "ready" /\ ver = "co"
  /\ traits' = pickTraitsHtml(tsrc)
  /\ body' = [kind |-> "html"]
  /\ pc' = "done"
  /\ UNCHANGED <<ver, url, inflight, attempts, parsed, outcome, text, cands, attacks, tsrc>>

\* the traits of parseText (dataloader-aon_co.js)
ParseTextTraits ==
  /\ pc = "ready" /\ ver = "co"
  /\ traits' = parseTextTraits(tsrc)
  /\ body' = [kind |-> "text"]
  /\ pc' = "done"
  /\ UNCHANGED <<ver, url, inflight, attempts, parsed, outcome, text, cands, attacks, tsrc>>

\* extractTraits(scope) of part_000
ExtractTraits ==
  /\ pc = "ready" /\ ver = "p0"
  /\ traits' = extractTraits(tsrc)
  /\ body' = [kind |-> "html"]
  /\ pc' = "done"
  /\ UNCHANGED <<ver, url, inflight, attempts, parsed, outcome, text, cands, attacks, tsrc>>

NextTraits == PickTraitsHtml \/ ParseTextTraits \/ ExtractTraits

SpecTraits == InitTraits /\ [][NextTraits]_vars

(* ------------------------------ Properties ----------------------------- *)

IssuesOf(a) == {i \in 1..Len(attempts) : attempts[i] = Issue(a)}
DirectFailed ==
  \E i \in 1..Len(attempts) : attempts[i].a = "direct" /\ attempts[i].e \in FailureModes
FallbackFailed ==
  \E i \in 1..Len(attempts) : attempts[i].a = "fallback" /\ attempts[i].e \in FailureModes

\* C1: retrieval is sequential. The first attempt issued is the direct one;
\* a fallback attempt is issued only right after the direct attempt has
\* ended in a failure (rejected fetch, non-ok status, unreadable body); the
\* two attempts are never in flight together; at most one attempt of each
\* kind is issued per call, and none after a direct success.
C1_SequentialRetrieval ==
  /\ Cardinality(inflight) <= 1
  /\ attempts # <<>> => attempts[1] = Issue("direct")
  /\ Cardinality(IssuesOf("direct")) <= 1
  /\ Cardinality(IssuesOf("fallback")) <= 1
  /\ \A i \in IssuesOf("fallback") :
       /\ i = 3
       /\ attempts[2].a = "direct"
       /\ attempts[2].e \in FailureModes
       /\ "direct" \notin inflight
  /\ \A i \in 1..Len(attempts) :
       attempts[i] = Done("direct", "ok") => i = Len(attempts)

C1_Witness ==
  /\ pc = "fallback"
  /\ inflight = {"fallback"}
  /\ attempts = <<Issue("direct"), Done("direct", "status"), Issue("fallback")>>

NothingRecognised ==
  /\ pc = "done"
  /\ body # JNull
  /\ ~Truthy(parsed.name)
  /\ parsed.level = JNull
  /\ parsed.hp = JNull

\* C2: when a retrieved page yields no name, no level and no hit points,
\* the call fails with the parse failure and returns no record.
C2_ParseFailure == NothingRecognised => outcome = Fail("Parse failed")

RetrievalErrors == {"Fetch failed via mirror", "Fetch failed.", "NetworkError"}

\* C3: when the direct and the fallback attempt both fail, the call fails
\* with a retrieval failure, returns no record and extracts nothing.
C3_RetrievalFailure ==
  (pc = "done" /\ DirectFailed /\ FallbackFailed) =>
     /\ outcome.k = "fail"
     /\ outcome.err \in RetrievalErrors
     /\ parsed = JNull
     /\ body = JNull

C3_Witness ==
  /\ pc = "done"
  /\ attempts = <<Issue("direct"), Done("direct", "network"),
                  Issue("fallback"), Done("fallback", "status")>>
  /\ outcome.k = "fail"

\* C4: an unparseable URL fails the call with the invalid-input error
\* before any I/O: no attempt is ever issued and no record is returned.
C4_InvalidInput ==
  url = "unparseable" =>
     /\ attempts = <<>>
     /\ inflight = {}
     /\ parsed = JNull
     /\ pc = "done" => outcome \in {Fail("Invalid URL"), Fail("Invalid URL.")}

C4_Witness == pc = "done" /\ url = "unparseable" /\ outcome.k = "fail"

\* C5: the merged attacks hold no two entries whose names are equal when
\* compared case-insensitively.
C5_UniqueNames ==
  pc = "done" =>
     \A i, j \in 1..Len(attacks) :
        i # j => toLowerCase(attacks[i].name) # toLowerCase(attacks[j].name)

C5_Witness ==
  /\ pc = "done"
  /\ Len(attacks) = 2
  /\ \E i, j \in 1..Len(cands) :
        /\ i < j
        /\ cands[i].name # cands[j].name
        /\ toLowerCase(cands[i].name) = toLowerCase(cands[j].name)
        /\ attacks[1] = cands[i]

\* the integer a sign-normalised bonus string denotes
BonusValue(b) ==
  IF Head(b) = "-" THEN 0 - DigitsValue(Tail(b), 0) ELSE DigitsValue(Tail(b), 0)

SameName(i, j) == toLowerCase(cands[i].name) = toLowerCase(cands[j].name)

FirstLargest(j) ==
  \A m \in 1..Len(cands) :
     SameName(m, j) =>
        /\ BonusValue(cands[m].attack) <= BonusValue(cands[j].attack)
        /\ m < j => BonusValue(cands[m].attack) < BonusValue(cands[j].attack)

\* C6: for every name among the candidates the merge keeps exactly the
\* candidate of that name with the numerically largest bonus, and the first
\* such candidate when several share the largest bonus.
C6_KeepsLargest ==
  pc = "done" =>
     /\ \A j \in 1..Len(cands) :
           FirstLargest(j) => \E i \in 1..Len(attacks) : attacks[i] = cands[j]
     /\ \A i \in 1..Len(attacks) :
           \E j \in 1..Len(cands) : FirstLargest(j) /\ attacks[i] = cands[j]

C6_Witness ==
  /\ pc = "done"
  /\ Len(cands) = 3
  /\ SameName(1, 2) /\ SameName(2, 3)
  /\ BonusValue(cands[1].attack) < BonusValue(cands[2].attack)
  /\ BonusValue(cands[2].attack) = BonusValue(cands[3].attack)
  /\ cands[2] # cands[3]
  /\ attacks = <<cands[2]>>

NoEmptyNoDuplicate(a) ==
  /\ \A i \in 1..Len(a) : a[i] # <<>>
  /\ \A i, j \in 1..Len(a) : i # j => a[i] # a[j]

\* C7: the extracted traits hold no empty string and no two equal entries,
\* whichever strategy produced them.
C7_TraitsDistinct == pc = "done" => NoEmptyNoDuplicate(traits)

IntegerOrAbsent(v) == v = JNull \/ v.k = "num"

\* C8: every returned record is fully defaulted: a non-empty name, level,
\* armor class and hit points each a finite integer or absent, speed a
\* non-empty string or absent, traits and attacks both sequences.
C8_FullyDefaulted ==
  outcome.k = "ok" =>
     /\ outcome.rec.name.k = "str" /\ outcome.rec.name.s # <<>>
     /\ IntegerOrAbsent(outcome.rec.level)
     /\ IntegerOrAbsent(outcome.rec.ac)
     /\ IntegerOrAbsent(outcome.rec.hp)
     /\ outcome.rec.speed = JNull
        \/ (outcome.rec.speed.k = "str" /\ outcome.rec.speed.s # <<>>)
     /\ outcome.rec.traits.k = "arr"
     /\ outcome.rec.attacks.k = "arr"

C8_Witness ==
  /\ outcome.k = "ok"
  /\ ver = "co"
  /\ ~Truthy(parsed.name) /\ outcome.rec.name = JStr(Unknown)
  /\ parsed.level.k = "inf" /\ outcome.rec.level = JNull
  /\ parsed.speed = JStr(<<>>) /\ outcome.rec.speed = JNull

HasDetailed(t) == \E i \in 1..Len(t) : IsLine(t[i]) /\ t[i].paren
HasSimpleOnly(t) == \E i \in 1..Len(t) : IsLine(t[i]) /\ ~t[i].paren

\* C9: the relaxed pattern contributes candidates only when the detailed
\* pattern found none in the whole window, so the returned attacks either
\* all carry a damage expression or all lack one.
C9_Homogeneous ==
  pc = "done" =>
     /\ HasDetailed(text) => \A i \in 1..Len(cands) : cands[i].damage.k = "str"
     /\ \/ \A i \in 1..Len(attacks) : attacks[i].damage.k = "str"
        \/ \A i \in 1..Len(attacks) : attacks[i].damage = JNull

C9_Witness ==
  /\ pc = "done"
  /\ HasDetailed(text) /\ HasSimpleOnly(text)
  /\ attacks # <<>>
  /\ \A i \in 1..Len(attacks) : attacks[i].damage.k = "str"

FirstPos(k) ==
  CHOOSE p \in 1..Len(cands) :
     /\ toLowerCase(cands[p].name) = k
     /\ \A q \in 1..(p - 1) : toLowerCase(cands[q].name) # k

\* C10: the merged attacks are ordered by the position at which each
\* case-insensitive name first occurs among the candidates; replacing an
\* entry by a later candidate with a larger bonus does not move it.
C10_FirstEncounterOrder ==
  pc = "done" =>
     /\ \A i \in 1..Len(attacks) :
           \E p \in 1..Len(cands) : toLowerCase(cands[p].name) = toLowerCase(attacks[i].name)
     /\ \A i, j \in 1..Len(attacks) :
           i < j => FirstPos(toLowerCase(attacks[i].name))
                      < FirstPos(toLowerCase(attacks[j].name))

C10_Witness ==
  /\ pc = "done"
  /\ Len(cands) = 3
  /\ SameName(1, 3) /\ ~SameName(1, 2)
  /\ attacks = <<cands[3], cands[2]>>

====
